---- MODULE Spec2Model ----
(***************************************************************************)
(* Model of the hold-back escrow contract                                  *)
(* (contracts/hello-world/src/hold_back_contract.rs, entities.rs,          *)
(* errors.rs).  Every public entry point of HoldBackContract is one        *)
(* action; its body is an operator that walks the handler in program order *)
(* and returns the error (or Ok) together with the storage and token       *)
(* ledger as written up to the point of return.  The host commits those    *)
(* writes only when the entry point returns Ok.                            *)
(***************************************************************************)
EXTENDS Integers, FiniteSets, Sequences, TLC

VARIABLES admin, counter, txs, bal, allow, paid, now, last

vars == <<admin, counter, txs, bal, allow, paid, now, last>>

----------------------------------------------------------------------------
(* Bounds of the model                                                     *)

\* number of transactions created in a behaviour
MaxTx == 2
\* number of days the ledger clock advances
MaxTicks == 1
\* model width of the u128 / i128 integers (Rust: 128)
Bits128 == 12
\* model width of the u64 ledger timestamp (Rust: 64)
Bits64 == 24
\* tokens alice owns at the start, and the allowance she has granted to the
\* escrow; bob owns 10 and has granted nothing, the others own nothing
InitBal == 40
InitAllow == 30

----------------------------------------------------------------------------
(* Program constants and value sets                                        *)

DAY_IN_SECONDS == 86400

U128_MAX == 2^Bits128 - 1
I128_MAX == 2^(Bits128 - 1) - 1
U64_MAX  == 2^Bits64 - 1

Principals == {"alice", "bob", "carol"}
Tokens     == {"xlm"}
Self       == "escrow"
Addresses  == Principals \cup Tokens \cup {Self}
NoAdmin    == "none"

\* arguments the callers try
AdminArgs == {"carol", "alice"}
PartyArgs == Principals \cup Tokens
Amounts   == {0, 10}
Rates     == {0, 20, 101}
Days      == {0, 1}

\* entities.rs: enum TransactionStatus
TransactionStatus == {"Held", "HoldbackPending", "Completed", "Cancelled", "Disputed"}

\* errors.rs: enum Error, plus Ok and the host trap (panic / failed auth)
Error == {"NotInitialized", "InvalidAmount", "InvalidHoldbackRate", "InvalidBuyer",
          "InvalidSeller", "TransactionNotFound", "InvalidStatus", "Unauthorized",
          "AlreadyInitialized", "InsufficientBalance", "InvalidHoldbackDays",
          "RateLimitExceeded", "Paused", "TransferFailed", "InsufficientAllowance"}
Ok   == "Ok"
Trap == "HostError"

----------------------------------------------------------------------------
(* The contract's persistent storage and the token ledger, as one value    *)

S == [admin |-> admin, counter |-> counter, txs |-> txs,
      bal |-> bal, allow |-> allow, paid |-> paid]

\* outcome of a call: error code, return value, and the state as written
Res(e, r, s) == [err |-> e, ret |-> r, s |-> s]

\* x as i128 for a u128 x: two's complement reinterpretation
as_i128(x) == IF x > I128_MAX THEN x - (U128_MAX + 1) ELSE x

checked_add(a, b, max) == IF a + b > max THEN -1 ELSE a + b
checked_sub(a, b) == IF a < b THEN -1 ELSE a - b
saturating_mul(a, b, max) == IF a * b > max THEN max ELSE a * b

NoPaid == [n |-> 0, seller |-> 0, buyer |-> 0]

Init ==
    /\ admin = NoAdmin
    /\ counter = 0
    /\ txs = << >>
    /\ bal = [t \in Tokens |-> [a \in Addresses |->
                IF a = "alice" THEN InitBal ELSE IF a = "bob" THEN 10 ELSE 0]]
    /\ allow = [t \in Tokens |-> [a \in Addresses |-> IF a = "alice" THEN InitAllow ELSE 0]]
    /\ paid = << >>
    /\ now = 0
    /\ last = [op |-> "none", err |-> Ok, ret |-> 0, days |-> 0, wrote |-> FALSE]

\* The host applies the writes of a call that returned Ok and discards the
\* writes of a call that returned an error or trapped.  last is the call
\* just made: the entry point, its outcome, the transaction id it returned,
\* for a payment that was created its holdback_days argument, and for a call
\* that failed whether it had written anything before it failed.
\* a host that keeps the writes of a call whatever the call returned
Commit_KeepsWrites(r, op, days) ==
    /\ admin' = r.s.admin /\ counter' = r.s.counter /\ txs' = r.s.txs
    /\ bal' = r.s.bal /\ allow' = r.s.allow /\ paid' = r.s.paid
    /\ last' = [op |-> op, err |-> r.err,
                ret |-> IF op = "create_payment" THEN r.ret ELSE 0,
                days |-> IF r.err = Ok THEN days ELSE 0,
                wrote |-> r.err # Ok /\ r.s # S]
    /\ UNCHANGED now

Commit(r, op, days) ==
    /\ admin'   = IF r.err = Ok THEN r.s.admin   ELSE admin
    /\ counter' = IF r.err = Ok THEN r.s.counter ELSE counter
    /\ txs'     = IF r.err = Ok THEN r.s.txs     ELSE txs
    /\ bal'     = IF r.err = Ok THEN r.s.bal     ELSE bal
    /\ allow'   = IF r.err = Ok THEN r.s.allow   ELSE allow
    /\ paid'    = IF r.err = Ok THEN r.s.paid    ELSE paid
    /\ last'    = [op |-> op, err |-> r.err,
                    ret |-> IF op = "create_payment" THEN r.ret ELSE 0,
                    days |-> IF r.err = Ok THEN days ELSE 0,
                    wrote |-> r.err # Ok /\ r.s # S]
    /\ UNCHANGED now

----------------------------------------------------------------------------
(* initialize                                                              *)

\* admin.require_auth() and the other require_auth calls: an invocation the
\* claimed identity did not authorize traps in the host before the handler
\* reads anything; the calls of the model are the authorized ones.
\* an initialize without the has(Admin) guard
initialize_Overwrites(s, a) == Res(Ok, 0, [s EXCEPT !.admin = a])

initialize(s, a) ==
    IF s.admin # NoAdmin THEN Res("AlreadyInitialized", 0, s)
    ELSE Res(Ok, 0, [s EXCEPT !.admin = a])

InitializeCall(a) == Commit(initialize(S, a), "initialize", 0)

Initialize == \E a \in AdminArgs : InitializeCall(a)

----------------------------------------------------------------------------
(* The token contract (soroban token interface), as the escrow calls it    *)

Move(b, from, to, amt) ==
    [a \in DOMAIN b |-> b[a] - (IF a = from THEN amt ELSE 0)
                             + (IF a = to THEN amt ELSE 0)]

\* token_client.transfer(from, to, amount): traps on a negative amount or
\* an insufficient balance, and when the address is no token contract
token_transfer(s, tok, from, to, amt) ==
    IF tok \notin Tokens \/ amt < 0 \/ s.bal[tok][from] < amt
    THEN [ok |-> FALSE, s |-> s]
    ELSE [ok |-> TRUE, s |-> [s EXCEPT !.bal[tok] = Move(@, from, to, amt)]]

\* token_client.transfer_from(spender, from, to, amount), spender = escrow
token_transfer_from(s, tok, from, to, amt) ==
    IF tok \notin Tokens \/ amt < 0 \/ s.allow[tok][from] < amt \/ s.bal[tok][from] < amt
    THEN [ok |-> FALSE, s |-> s]
    ELSE [ok |-> TRUE,
          s |-> [s EXCEPT !.bal[tok] = Move(@, from, to, amt),
                          !.allow[tok][from] = @ - amt]]

\* record of the holdback paid out of custody on behalf of a transaction
pay(p, who, amt) ==
    [p EXCEPT !.n = @ + 1, ![who] = @ + amt]

----------------------------------------------------------------------------
(* create_payment                                                          *)

\* amount == 0 || amount as i128 > i128::MAX
amount_invalid(amount) == amount = 0 \/ as_i128(amount) > I128_MAX

\* a rate check without the upper bound
rate_invalid_NoUpperBound(holdback_rate) == holdback_rate = 0

rate_invalid(holdback_rate) == holdback_rate = 0 \/ holdback_rate > 100

\* (amount * holdback_rate as u128) / 100 ; the product is a u128
\* multiplication: it wraps or panics on overflow, as the build profile has it
holdback_of(amount, holdback_rate) ==
    ((amount * holdback_rate) % (U128_MAX + 1)) \div 100

mul_overflows(amount, holdback_rate) == amount * holdback_rate > U128_MAX

\* an id taken from the counter without the increment
next_transaction_id_NoIncrement(c) == checked_add(c, 0, U128_MAX)

\* unwrap_or(0).checked_add(1)
next_transaction_id(c) == checked_add(c, 1, U128_MAX)

\* a release time that adds the days without turning them into seconds
release_time_of_DaysAsSeconds(t, holdback_days) ==
    checked_add(t, holdback_days, U64_MAX)

\* timestamp.checked_add((holdback_days as u64).saturating_mul(DAY_IN_SECONDS))
release_time_of(t, holdback_days) ==
    checked_add(t, saturating_mul(holdback_days, DAY_IN_SECONDS, U64_MAX), U64_MAX)

new_transaction(buyer, seller, amount, token, holdback_rate, holdback_amount, final_amount, release_time) ==
    [buyer |-> buyer, seller |-> seller, amount |-> amount, token |-> token,
     holdback_rate |-> holdback_rate, holdback_amount |-> holdback_amount,
     final_amount |-> final_amount, release_time |-> release_time,
     status |-> "Held"]

\* lines 64-124: the effects, after every precondition has passed
create_payment_effects(s, t, buyer, seller, amount, token, holdback_rate, holdback_days, holdback_amount, final_amount) ==
    LET x1 == token_transfer_from(s, token, buyer, Self, as_i128(amount))
        x2 == IF final_amount > 0
              THEN token_transfer(x1.s, token, Self, seller, as_i128(final_amount))
              ELSE [ok |-> TRUE, s |-> x1.s]
        transaction_id == next_transaction_id(x2.s.counter)
        s3 == [x2.s EXCEPT !.counter = transaction_id]
        release_time == release_time_of(t, holdback_days)
        transaction == new_transaction(buyer, seller, amount, token, holdback_rate,
                                       holdback_amount, final_amount, release_time)
    IN  IF ~x1.ok THEN Res(Trap, 0, s)
        ELSE IF ~x2.ok THEN Res(Trap, 0, x1.s)
        ELSE IF transaction_id = -1 THEN Res("InvalidAmount", 0, x2.s)
        ELSE IF release_time = -1 THEN Res("InvalidAmount", 0, s3)
        ELSE Res(Ok, transaction_id,
                 [s3 EXCEPT !.txs = (transaction_id :> transaction) @@ @,
                            !.paid = (transaction_id :> NoPaid) @@ @])

create_payment(s, t, buyer, seller, amount, token, holdback_rate, holdback_days, wraps) ==
    IF s.admin = NoAdmin THEN Res("NotInitialized", 0, s)
    ELSE IF amount_invalid(amount) THEN Res("InvalidAmount", 0, s)
    ELSE IF rate_invalid(holdback_rate) THEN Res("InvalidHoldbackRate", 0, s)
    ELSE IF buyer = seller \/ buyer = s.admin \/ seller = s.admin
         THEN Res("InvalidBuyer", 0, s)
    ELSE IF buyer = token \/ seller = token THEN Res("InvalidSeller", 0, s)
    ELSE IF mul_overflows(amount, holdback_rate) /\ ~wraps THEN Res(Trap, 0, s)
    ELSE LET holdback_amount == holdback_of(amount, holdback_rate)
             final_amount == checked_sub(amount, holdback_amount)
         IN  IF final_amount = -1 THEN Res("InvalidAmount", 0, s)
             ELSE IF token \notin Tokens THEN Res(Trap, 0, s)
             ELSE IF s.bal[token][buyer] < as_i128(amount)
                  THEN Res("InsufficientBalance", 0, s)
             ELSE IF s.allow[token][buyer] < as_i128(amount)
                  THEN Res("InsufficientAllowance", 0, s)
             ELSE create_payment_effects(s, t, buyer, seller, amount, token,
                                         holdback_rate, holdback_days,
                                         holdback_amount, final_amount)

CreatePaymentCall(buyer, seller, amount, token, holdback_rate, holdback_days, wraps) ==
    /\ counter < MaxTx
    /\ Commit(create_payment(S, now, buyer, seller, amount, token,
                             holdback_rate, holdback_days, wraps),
              "create_payment", holdback_days)

\* whether a u128 multiplication that overflows wraps or panics is decided
\* by the build profile (overflow-checks); both are tried where it matters
CreatePayment ==
    \E buyer \in PartyArgs, seller \in PartyArgs, amount \in Amounts,
       token \in Tokens, holdback_rate \in Rates, holdback_days \in Days :
        \E wraps \in {FALSE} \cup {mul_overflows(amount, holdback_rate)} :
            CreatePaymentCall(buyer, seller, amount, token, holdback_rate,
                              holdback_days, wraps)

----------------------------------------------------------------------------
(* release_holdback_if_due, check_and_release, approve_release             *)

\* a release that knows the timer only and ignores the buyer's approval
release_due_TimerOnly(tx, t) == tx.status = "Held" /\ t >= tx.release_time

\* a release that makes an approved transaction wait for the clock as well
release_due_PendingWaitsForClock(tx, t) ==
    /\ tx.status \in {"HoldbackPending", "Held"}
    /\ t >= tx.release_time

\* a release that forgets to ask for Held before it looks at the clock
release_due_AnyStatusWhenDue(tx, t) ==
    \/ tx.status = "HoldbackPending"
    \/ t >= tx.release_time

\* lines 262-264
release_due(tx, t) ==
    \/ tx.status = "HoldbackPending"
    \/ (tx.status = "Held" /\ t >= tx.release_time)

\* a release that marks the transaction Completed and forgets the transfer
release_holdback_if_due_NoTransfer(s, t, id) ==
    IF id \notin DOMAIN s.txs THEN Res("TransactionNotFound", 0, s)
    ELSE IF release_due(s.txs[id], t)
         THEN Res(Ok, 0, [s EXCEPT !.txs[id].status = "Completed"])
         ELSE Res(Ok, 0, s)

release_holdback_if_due(s, t, id) ==
    IF id \notin DOMAIN s.txs THEN Res("TransactionNotFound", 0, s)
    ELSE LET tx == s.txs[id]
             x  == token_transfer(s, tx.token, Self, tx.seller, as_i128(tx.holdback_amount))
         IN  IF release_due(tx, t)
             THEN IF ~x.ok THEN Res(Trap, 0, s)
                  ELSE Res(Ok, 0, [x.s EXCEPT !.txs[id].status = "Completed",
                                              !.paid[id] = pay(@, "seller", tx.holdback_amount)])
             ELSE Res(Ok, 0, s)

\* a check that lets a disputed transaction through to the release routine
release_blocked_Never(tx) == FALSE

\* a check that turns every transaction away from the release routine
release_blocked_Always(tx) == TRUE

\* line 247
release_blocked(tx) == tx.status = "Disputed"

check_and_release(s, t, id) ==
    IF id \notin DOMAIN s.txs THEN Res("TransactionNotFound", 0, s)
    ELSE IF release_blocked(s.txs[id]) THEN Res("InvalidStatus", 0, s)
    ELSE release_holdback_if_due(s, t, id)

\* an identity check that accepts every claimed identity
not_the_buyer_Never(tx, buyer) == FALSE

\* lines 134 and 157: transaction.buyer != buyer
not_the_buyer(tx, buyer) == tx.buyer # buyer

\* a status check that also lets a disputed transaction be approved
approve_status_invalid_AllowsDisputed(tx) == tx.status \notin {"Held", "Disputed"}

\* line 137
approve_status_invalid(tx) == tx.status # "Held"

approve_release(s, t, id, buyer) ==
    IF id \notin DOMAIN s.txs THEN Res("TransactionNotFound", 0, s)
    ELSE IF not_the_buyer(s.txs[id], buyer) THEN Res("Unauthorized", 0, s)
    ELSE IF approve_status_invalid(s.txs[id]) THEN Res("InvalidStatus", 0, s)
    ELSE release_holdback_if_due([s EXCEPT !.txs[id].status = "HoldbackPending"], t, id)

----------------------------------------------------------------------------
(* initiate_dispute, resolve_dispute                                       *)

\* a status check that only turns away cancelled transactions
dispute_status_invalid_OnlyCancelled(tx) == tx.status = "Cancelled"

\* lines 160-161
dispute_status_invalid(tx) == tx.status # "Held" /\ tx.status # "HoldbackPending"

\* a dispute window that closes at release_time
initiate_dispute_ClosedAfterDeadline(s, id, buyer) ==
    IF id \notin DOMAIN s.txs THEN Res("TransactionNotFound", 0, s)
    ELSE IF not_the_buyer(s.txs[id], buyer) THEN Res("Unauthorized", 0, s)
    ELSE IF dispute_status_invalid(s.txs[id]) \/ now >= s.txs[id].release_time
         THEN Res("InvalidStatus", 0, s)
    ELSE Res(Ok, 0, [s EXCEPT !.txs[id].status = "Disputed"])

initiate_dispute(s, id, buyer) ==
    IF id \notin DOMAIN s.txs THEN Res("TransactionNotFound", 0, s)
    ELSE IF not_the_buyer(s.txs[id], buyer) THEN Res("Unauthorized", 0, s)
    ELSE IF dispute_status_invalid(s.txs[id]) THEN Res("InvalidStatus", 0, s)
    ELSE Res(Ok, 0, [s EXCEPT !.txs[id].status = "Disputed"])

\* a status check that only turns away transactions still held
resolve_status_invalid_OnlyHeld(tx) == tx.status = "Held"

\* line 197
resolve_status_invalid(tx) == tx.status # "Disputed"

\* the two branches of the refund flag, interchanged
resolve_outcome_Swapped(tx, refund) ==
    IF refund THEN [to |-> tx.seller, who |-> "seller", status |-> "Completed"]
              ELSE [to |-> tx.buyer, who |-> "buyer", status |-> "Cancelled"]

\* lines 202-232: who is paid and the status that results
resolve_outcome(tx, refund) ==
    IF refund THEN [to |-> tx.buyer, who |-> "buyer", status |-> "Cancelled"]
              ELSE [to |-> tx.seller, who |-> "seller", status |-> "Completed"]

resolve_dispute(s, id, refund, a) ==
    IF s.admin = NoAdmin THEN Res("NotInitialized", 0, s)
    ELSE IF a # s.admin THEN Res("Unauthorized", 0, s)
    ELSE IF id \notin DOMAIN s.txs THEN Res("TransactionNotFound", 0, s)
    ELSE IF resolve_status_invalid(s.txs[id]) THEN Res("InvalidStatus", 0, s)
    ELSE LET tx == s.txs[id]
             o  == resolve_outcome(tx, refund)
             x  == token_transfer(s, tx.token, Self, o.to, as_i128(tx.holdback_amount))
         IN  IF ~x.ok THEN Res(Trap, 0, s)
             ELSE Res(Ok, 0, [x.s EXCEPT !.txs[id].status = o.status,
                                         !.paid[id] = pay(@, o.who, tx.holdback_amount)])

\* get_admin: a pure read
get_admin(s) ==
    IF s.admin = NoAdmin THEN Res("NotInitialized", NoAdmin, s) ELSE Res(Ok, s.admin, s)

----------------------------------------------------------------------------
(* The calls, as steps                                                     *)

\* identifiers a caller may pass: the stored ones and one that is not
Ids == 1..(MaxTx + 1)

ApproveReleaseCall(id, buyer) ==
    Commit(approve_release(S, now, id, buyer), "approve_release", 0)

InitiateDisputeCall(id, buyer) ==
    Commit(initiate_dispute(S, id, buyer), "initiate_dispute", 0)

ResolveDisputeCall(id, refund, a) ==
    Commit(resolve_dispute(S, id, refund, a), "resolve_dispute", 0)

CheckAndReleaseCall(id) ==
    Commit(check_and_release(S, now, id), "check_and_release", 0)

ApproveRelease ==
    \E id \in Ids, buyer \in Principals : ApproveReleaseCall(id, buyer)

InitiateDispute ==
    \E id \in Ids, buyer \in Principals : InitiateDisputeCall(id, buyer)

ResolveDispute ==
    \E id \in Ids, refund \in BOOLEAN, a \in Principals :
        ResolveDisputeCall(id, refund, a)

CheckAndRelease == \E id \in Ids : CheckAndReleaseCall(id)

GetAdmin == Commit(get_admin(S), "get_admin", 0)

\* the ledger closes and its timestamp advances
Tick ==
    /\ now + DAY_IN_SECONDS <= MaxTicks * DAY_IN_SECONDS
    /\ now' = now + DAY_IN_SECONDS
    /\ UNCHANGED <<admin, counter, txs, bal, allow, paid, last>>

Next ==
    \/ Initialize
    \/ CreatePayment
    \/ ApproveRelease
    \/ InitiateDispute
    \/ ResolveDispute
    \/ CheckAndRelease
    \/ GetAdmin
    \/ Tick

Spec == Init /\ [][Next]_vars

----------------------------------------------------------------------------
(* The same contract with amounts and rates at the edges of their types,   *)
(* a buyer who can pay them, and a ledger clock at the start or at the end *)
(* of its range                                                            *)

\* number of transactions created in a behaviour of SpecWide
MaxWideTx == 1

WideAmounts == {0, 1, 10, I128_MAX, I128_MAX + 1}
WideRates   == {0, 1, 20, 100, 101}
WideBuyers  == {"alice", "bob", "carol"}
WideSellers == {"bob", "xlm"}

InitWide ==
    /\ admin = NoAdmin
    /\ counter = 0
    /\ txs = << >>
    /\ bal = [t \in Tokens |-> [a \in Addresses |->
                IF a = "alice" THEN I128_MAX ELSE IF a = "bob" THEN 10 ELSE 0]]
    /\ allow = [t \in Tokens |-> [a \in Addresses |->
                IF a = "alice" THEN I128_MAX ELSE 0]]
    /\ paid = << >>
    /\ now \in {0, U64_MAX}
    /\ last = [op |-> "none", err |-> Ok, ret |-> 0, days |-> 0, wrote |-> FALSE]

CreatePaymentWideCall(buyer, seller, amount, token, holdback_rate, holdback_days, wraps) ==
    /\ counter < MaxWideTx
    /\ Commit(create_payment(S, now, buyer, seller, amount, token,
                             holdback_rate, holdback_days, wraps),
              "create_payment", holdback_days)

CreatePaymentWide ==
    \E buyer \in WideBuyers, seller \in WideSellers, amount \in WideAmounts,
       token \in Tokens, holdback_rate \in WideRates, holdback_days \in Days :
        \E wraps \in {FALSE} \cup {mul_overflows(amount, holdback_rate)} :
            CreatePaymentWideCall(buyer, seller, amount, token, holdback_rate,
                                  holdback_days, wraps)

NextWide ==
    \/ Initialize
    \/ CreatePaymentWide
    \/ ApproveRelease
    \/ InitiateDispute
    \/ ResolveDispute
    \/ CheckAndRelease
    \/ GetAdmin

SpecWide == InitWide /\ [][NextWide]_vars

----------------------------------------------------------------------------
(* The contract driven by the collaborators it relies on: a ledger whose   *)
(* clock keeps advancing, a periodic caller of check_and_release for every *)
(* transaction, and an admin who resolves the disputes that are open       *)

\* the ledger closes; the clock goes on for as long as a held transaction
\* waits for its release time
TickFair ==
    /\ \/ now + DAY_IN_SECONDS <= MaxTicks * DAY_IN_SECONDS
       \/ \E id \in DOMAIN txs : txs[id].status = "Held" /\ txs[id].release_time > now
    /\ now' = now + DAY_IN_SECONDS
    /\ UNCHANGED <<admin, counter, txs, bal, allow, paid, last>>

\* the admin rules on an open dispute, one way or the other
AdminResolves(id) ==
    /\ id \in DOMAIN txs
    /\ txs[id].status = "Disputed"
    /\ \E refund \in BOOLEAN : ResolveDisputeCall(id, refund, admin)

NextFair ==
    \/ Initialize
    \/ CreatePayment
    \/ ApproveRelease
    \/ InitiateDispute
    \/ ResolveDispute
    \/ CheckAndRelease
    \/ GetAdmin
    \/ TickFair

Fairness ==
    /\ WF_vars(TickFair)
    /\ \A id \in 1..MaxTx : WF_vars(CheckAndReleaseCall(id))
    /\ \A id \in 1..MaxTx : WF_vars(AdminResolves(id))

SpecFair == Init /\ [][NextFair]_vars /\ Fairness

----------------------------------------------------------------------------
(* Properties                                                              *)

Terminal(st) == st \in {"Completed", "Cancelled"}

\* the step changes neither storage nor any balance
StoreUnchanged == UNCHANGED <<admin, counter, txs, bal, allow, paid>>

\* C1: once a transaction is Completed or Cancelled, no step of any call
\* changes any field of its record or pays anything out on its behalf.
C1_TerminalAbsorbing ==
    [][\A id \in DOMAIN txs :
          Terminal(txs[id].status) =>
              /\ id \in DOMAIN txs'
              /\ txs'[id] = txs[id]
              /\ paid'[id] = paid[id]]_vars

\* a call that succeeded on a Cancelled transaction, after it was cancelled
C1_Witness ==
    /\ counter = 1
    /\ txs[1].status = "Cancelled"
    /\ last.op = "check_and_release" /\ last.err = Ok

\* C2: the holdback of a transaction leaves custody at most once, and never
\* more than holdback_amount; check_and_release on a Completed transaction
\* returns Ok and writes nothing.
C2_HoldbackPaidOnce ==
    \A id \in DOMAIN txs :
        /\ paid[id].n <= 1
        /\ paid[id].seller + paid[id].buyer <= txs[id].holdback_amount
        /\ paid[id].n = 1 <=> Terminal(txs[id].status)
        /\ txs[id].status = "Completed" => check_and_release(S, now, id) = Res(Ok, 0, S)

\* check_and_release succeeded on a transaction that had been completed
\* before its release_time, i.e. by an earlier call
C2_Witness ==
    /\ counter = 1
    /\ txs[1].status = "Completed" /\ paid[1].n = 1
    /\ now < txs[1].release_time
    /\ last.op = "check_and_release" /\ last.err = Ok

\* C3: check_and_release on a Disputed transaction fails with InvalidStatus
\* at any time and changes neither the record nor any balance.
C3_DisputedNeverAutoReleases ==
    [][\A id \in DOMAIN txs :
          (last'.op = "check_and_release" /\ txs[id].status = "Disputed"
             /\ CheckAndReleaseCall(id)) =>
              (last'.err = "InvalidStatus" /\ StoreUnchanged)]_vars

\* the failed call, made at or after release_time
C3_Witness ==
    /\ counter = 1
    /\ txs[1].status = "Disputed"
    /\ now >= txs[1].release_time
    /\ last.op = "check_and_release" /\ last.err = "InvalidStatus"

\* C4: a Disputed transaction leaves Disputed only in a step that is a
\* successful resolve_dispute by the stored admin, and the step leaves it
\* Cancelled when refund is true and Completed when refund is false.
C4_ResolveIsOnlyWayOut ==
    [][\A id \in DOMAIN txs :
          (txs[id].status = "Disputed" /\ txs'[id].status # "Disputed") =>
              /\ admin # NoAdmin
              /\ \E refund \in BOOLEAN :
                    /\ ResolveDisputeCall(id, refund, admin)
                    /\ last'.err = Ok
                    /\ txs'[id].status = IF refund THEN "Cancelled" ELSE "Completed"]_vars

\* the admin has just resolved the only transaction with a refund
C4_Witness ==
    /\ counter = 1
    /\ txs[1].status = "Cancelled"
    /\ last.op = "resolve_dispute" /\ last.err = Ok

\* C5: on an existing transaction, whatever its status, approve_release and
\* initiate_dispute with a claimed identity other than its buyer, and
\* resolve_dispute with a claimed identity other than the stored admin,
\* return Unauthorized having written nothing to storage or to any balance.
C5_Authorization ==
    \A id \in DOMAIN txs, who \in Addresses :
        /\ who # txs[id].buyer =>
              /\ approve_release(S, now, id, who) = Res("Unauthorized", 0, S)
              /\ initiate_dispute(S, id, who) = Res("Unauthorized", 0, S)
        /\ who # admin =>
              \A refund \in BOOLEAN :
                  resolve_dispute(S, id, refund, who) = Res("Unauthorized", 0, S)

\* somebody other than the admin has just tried to resolve a dispute
C5_Witness ==
    /\ counter = 1
    /\ txs[1].status = "Disputed"
    /\ last.op = "resolve_dispute" /\ last.err = "Unauthorized"

\* the holdback of tx, paid once to the seller / once to the buyer
PaidToSeller(tx) == [n |-> 1, seller |-> tx.holdback_amount, buyer |-> 0]
PaidToBuyer(tx)  == [n |-> 1, seller |-> 0, buyer |-> tx.holdback_amount]

\* the balances after holdback_amount of tx went from custody to address to
BalAfterPayout(tx, to) ==
    [bal EXCEPT ![tx.token] = Move(@, Self, to, tx.holdback_amount)]

\* C6: approve_release by the buyer on a Held transaction succeeds at any
\* time, leaves it Completed with holdback_amount paid once to the seller,
\* and a second approve_release then fails with InvalidStatus, writing nothing.
C6_ApproveReleasesAtOnce ==
    [][\A id \in DOMAIN txs :
          (last'.op = "approve_release" /\ txs[id].status = "Held"
             /\ ApproveReleaseCall(id, txs[id].buyer)) =>
              /\ last'.err = Ok
              /\ txs' = [txs EXCEPT ![id].status = "Completed"]
              /\ paid' = [paid EXCEPT ![id] = PaidToSeller(txs[id])]
              /\ bal' = BalAfterPayout(txs[id], txs[id].seller)
              /\ (approve_release(S, now, id, txs[id].buyer) = Res("InvalidStatus", 0, S))']_vars

\* the buyer approved before release_time and the holdback is out
C6_Witness ==
    /\ counter = 1
    /\ txs[1].status = "Completed" /\ paid[1] = PaidToSeller(txs[1])
    /\ now < txs[1].release_time
    /\ last.op = "approve_release" /\ last.err = Ok

\* C7: a created transaction is Held with release_time = creation time +
\* holdback_days * 86400; check_and_release on a Held transaction returns Ok,
\* writes nothing before release_time, and from release_time on completes
\* the transaction and pays holdback_amount to the seller.
C7_TimedRelease ==
    [][/\ (last'.op = "create_payment" /\ last'.err = Ok /\ last' # last) =>
            /\ txs'[last'.ret].status = "Held"
            /\ txs'[last'.ret].release_time = now + last'.days * 86400
       /\ \A id \in DOMAIN txs :
            (last'.op = "check_and_release" /\ txs[id].status = "Held"
               /\ CheckAndReleaseCall(id)) =>
                /\ last'.err = Ok
                /\ IF now < txs[id].release_time
                   THEN StoreUnchanged
                   ELSE /\ txs' = [txs EXCEPT ![id].status = "Completed"]
                        /\ paid' = [paid EXCEPT ![id] = PaidToSeller(txs[id])]
                        /\ bal' = BalAfterPayout(txs[id], txs[id].seller)]_vars

\* a one-day holdback created at time 0 was released by check_and_release
\* exactly at its release_time
C7_Witness ==
    /\ counter = 1
    /\ txs[1].release_time = 86400 /\ now = 86400
    /\ txs[1].status = "Completed" /\ paid[1] = PaidToSeller(txs[1])
    /\ last.op = "check_and_release" /\ last.err = Ok

\* C8: resolve_dispute by the stored admin on a Disputed transaction pays
\* holdback_amount to the buyer and sets Cancelled when refund is true, pays
\* it to the seller and sets Completed when refund is false; a further
\* resolve_dispute then fails with InvalidStatus, writing nothing.
C8_ResolveOutcome ==
    [][\A id \in DOMAIN txs, refund \in BOOLEAN :
          (last'.op = "resolve_dispute" /\ txs[id].status = "Disputed"
             /\ admin # NoAdmin /\ ResolveDisputeCall(id, refund, admin)) =>
              /\ last'.err = Ok
              /\ txs' = [txs EXCEPT ![id].status = IF refund THEN "Cancelled" ELSE "Completed"]
              /\ paid' = [paid EXCEPT ![id] = IF refund THEN PaidToBuyer(txs[id])
                                                       ELSE PaidToSeller(txs[id])]
              /\ bal' = BalAfterPayout(txs[id], IF refund THEN txs[id].buyer
                                                          ELSE txs[id].seller)
              /\ \A again \in BOOLEAN :
                    (resolve_dispute(S, id, again, admin) = Res("InvalidStatus", 0, S))']_vars

\* the admin tried to resolve a transaction already refunded
C8_Witness ==
    /\ counter = 1
    /\ txs[1].status = "Cancelled" /\ paid[1] = PaidToBuyer(txs[1])
    /\ last.op = "resolve_dispute" /\ last.err = "InvalidStatus"

\* C9: records exist for exactly the ids 1..TransactionCounter; the counter
\* changes only in a successful create_payment, which adds 1, returns the new
\* counter as the id and stores a record under it, leaving every older
\* record in place; a successful create_payment always does so.
C9_SequentialIds ==
    [][/\ DOMAIN txs = 1..counter
       /\ DOMAIN txs' = 1..counter'
       /\ counter' >= counter
       /\ counter' # counter =>
            /\ counter' = counter + 1
            /\ last'.op = "create_payment" /\ last'.err = Ok /\ last'.ret = counter'
            /\ \A id \in DOMAIN txs : txs'[id] = txs[id]
       /\ (last'.op = "create_payment" /\ last'.err = Ok /\ last' # last) =>
            counter' = counter + 1
       /\ (last'.err # Ok /\ last' # last) => StoreUnchanged]_vars

\* the second creation returned id 2
C9_Witness ==
    /\ counter = 2 /\ DOMAIN txs = {1, 2}
    /\ last.op = "create_payment" /\ last.err = Ok /\ last.ret = 2

\* C10: a stored admin never changes; initialize records its argument when
\* no admin is stored and fails with AlreadyInitialized, writing nothing,
\* when one is; while none is stored get_admin and every create_payment
\* fail with NotInitialized.
C10_AdminSetOnce ==
    [][/\ admin # NoAdmin => admin' = admin
       /\ \A a \in AdminArgs :
            (last'.op = "initialize" /\ InitializeCall(a)) =>
                IF admin = NoAdmin
                THEN last'.err = Ok /\ admin' = a
                ELSE last'.err = "AlreadyInitialized" /\ StoreUnchanged
       /\ admin = NoAdmin =>
            /\ get_admin(S) = Res("NotInitialized", NoAdmin, S)
            /\ \A buyer \in PartyArgs, seller \in PartyArgs, amount \in Amounts,
                  token \in Tokens, holdback_rate \in Rates, holdback_days \in Days :
                  create_payment(S, now, buyer, seller, amount, token, holdback_rate,
                                 holdback_days, FALSE) = Res("NotInitialized", 0, S)
            /\ (last'.op \in {"get_admin", "create_payment"} /\ last' # last) =>
                  (last'.err = "NotInitialized" /\ StoreUnchanged)]_vars

\* a second initialize, by another identity, was turned away
C10_Witness ==
    /\ admin = "carol"
    /\ last.op = "initialize" /\ last.err = "AlreadyInitialized"

\* C16: a step that makes a transaction Disputed is a successful
\* initiate_dispute by its buyer on a Held or HoldbackPending transaction and
\* moves no funds; on a Completed, Cancelled or Disputed transaction the
\* buyer's initiate_dispute returns InvalidStatus having written nothing.
C16_DisputeOnlyFromHeld ==
    [][\A id \in DOMAIN txs :
          /\ (txs[id].status # "Disputed" /\ txs'[id].status = "Disputed") =>
                /\ txs[id].status \in {"Held", "HoldbackPending"}
                /\ InitiateDisputeCall(id, txs[id].buyer)
                /\ last'.err = Ok
                /\ txs' = [txs EXCEPT ![id].status = "Disputed"]
                /\ bal' = bal /\ allow' = allow /\ paid' = paid
          /\ txs[id].status \in {"Completed", "Cancelled", "Disputed"} =>
                initiate_dispute(S, id, txs[id].buyer) = Res("InvalidStatus", 0, S)]_vars

\* the buyer has just disputed the only transaction; its holdback is still
\* in custody
C16_Witness ==
    /\ counter = 1
    /\ txs[1].status = "Disputed" /\ paid[1] = NoPaid
    /\ bal[txs[1].token][Self] = txs[1].holdback_amount
    /\ last.op = "initiate_dispute" /\ last.err = Ok

\* the transactions whose holdback has not been paid out
Outstanding(st) == st \in {"Held", "HoldbackPending", "Disputed"}

RECURSIVE SumHoldback(_, _)
\* sum of holdback_amount over the outstanding transactions of token tok
\* among ids
SumHoldback(ids, tok) ==
    IF ids = {} THEN 0
    ELSE LET id == CHOOSE i \in ids : TRUE
         IN  (IF txs[id].token = tok /\ Outstanding(txs[id].status)
              THEN txs[id].holdback_amount ELSE 0)
             + SumHoldback(ids \ {id}, tok)

\* C17: the escrow address being no party of any transaction, its balance of
\* each token is the sum of holdback_amount over the Held, HoldbackPending
\* and Disputed transactions of that token.
C17_CustodyConservation ==
    (\A id \in DOMAIN txs : txs[id].buyer # Self /\ txs[id].seller # Self) =>
        \A tok \in Tokens : bal[tok][Self] = SumHoldback(DOMAIN txs, tok)

\* one holdback released, one still held: custody is exactly the second
C17_Witness ==
    /\ counter = 2
    /\ txs[1].status = "Completed" /\ txs[2].status = "Held"
    /\ txs[2].holdback_amount > 0
    /\ bal[txs[2].token][Self] = txs[2].holdback_amount

\* C18: no stored transaction is HoldbackPending in any state between two
\* calls, so that every step into Disputed starts from Held.
C18_PendingNeverStored ==
    [][/\ \A id \in DOMAIN txs : txs[id].status # "HoldbackPending"
       /\ \A id \in DOMAIN txs' : txs'[id].status # "HoldbackPending"
       /\ \A id \in DOMAIN txs :
            (txs[id].status # "Disputed" /\ txs'[id].status = "Disputed") =>
                txs[id].status = "Held"]_vars

\* the buyer approved the second transaction before its release_time, after
\* disputing the first: the approval left Completed, not HoldbackPending
C18_Witness ==
    /\ counter = 2
    /\ txs[1].status = "Disputed"
    /\ txs[2].status = "Completed" /\ now < txs[2].release_time
    /\ last.op = "approve_release" /\ last.err = Ok

\* C19: on a transaction still Held, at or after release_time as well as
\* before it, the buyer's initiate_dispute succeeds and sets Disputed, after
\* which check_and_release fails with InvalidStatus; if check_and_release
\* runs first at or after release_time the transaction is Completed and the
\* buyer's initiate_dispute fails with InvalidStatus.
C19_DisputeRacesRelease ==
    [][\A id \in DOMAIN txs :
          txs[id].status = "Held" =>
              /\ (last'.op = "initiate_dispute"
                    /\ InitiateDisputeCall(id, txs[id].buyer)) =>
                    /\ last'.err = Ok
                    /\ txs' = [txs EXCEPT ![id].status = "Disputed"]
                    /\ bal' = bal /\ paid' = paid
                    /\ (check_and_release(S, now, id) = Res("InvalidStatus", 0, S))'
              /\ (last'.op = "check_and_release" /\ now >= txs[id].release_time
                    /\ CheckAndReleaseCall(id)) =>
                    /\ txs'[id].status = "Completed"
                    /\ (initiate_dispute(S, id, txs[id].buyer)
                          = Res("InvalidStatus", 0, S))']_vars

\* a dispute raised after the release_time had passed, the holdback frozen
C19_Witness ==
    /\ counter = 1
    /\ txs[1].status = "Disputed" /\ paid[1] = NoPaid
    /\ now > txs[1].release_time
    /\ last.op = "initiate_dispute" /\ last.err = Ok

\* the amounts of a record add up and its amount and rate are in range
AmountsConsistent(tx) ==
    /\ tx.holdback_amount + tx.final_amount = tx.amount
    /\ tx.amount > 0
    /\ 0 < tx.holdback_rate /\ tx.holdback_rate <= 100

\* C11: every stored transaction has holdback_amount + final_amount = amount,
\* amount > 0 and 0 < holdback_rate <= 100, and no step changes any field of
\* a stored transaction other than its status.
C11_AmountsAddUp ==
    [][/\ \A id \in DOMAIN txs' : AmountsConsistent(txs'[id])
       /\ \A id \in DOMAIN txs :
            /\ id \in DOMAIN txs'
            /\ [txs'[id] EXCEPT !.status = txs[id].status] = txs[id]]_vars

\* a payment held back in full (rate 100, nothing forwarded at creation)
\* and later refunded
C11_Witness ==
    /\ counter = 1
    /\ txs[1].holdback_rate = 100 /\ txs[1].final_amount = 0
    /\ txs[1].holdback_amount = txs[1].amount
    /\ txs[1].status = "Cancelled"

FirstViolated(buyer, seller, amount, token, holdback_rate) ==
    IF admin = NoAdmin THEN "NotInitialized"
    ELSE IF amount = 0 THEN "InvalidAmount"
    ELSE IF holdback_rate = 0 \/ holdback_rate > 100 THEN "InvalidHoldbackRate"
    ELSE IF buyer = seller \/ buyer = admin \/ seller = admin THEN "InvalidBuyer"
    ELSE IF buyer = token \/ seller = token THEN "InvalidSeller"
    ELSE IF bal[token][buyer] < amount THEN "InsufficientBalance"
    ELSE IF allow[token][buyer] < amount THEN "InsufficientAllowance"
    ELSE "none"

\* C13: whenever one of the preconditions is violated, create_payment
\* returns the error of the first violated one in the documented order and
\* creates nothing.
C13_FirstFailureWins ==
    \A buyer \in PartyArgs, seller \in PartyArgs, amount \in WideAmounts,
       token \in Tokens, holdback_rate \in WideRates, holdback_days \in Days,
       wraps \in BOOLEAN :
        FirstViolated(buyer, seller, amount, token, holdback_rate) # "none" =>
            create_payment(S, now, buyer, seller, amount, token, holdback_rate,
                           holdback_days, wraps)
              = Res(FirstViolated(buyer, seller, amount, token, holdback_rate), 0, S)

\* C14: every amount above the largest signed 128-bit value is rejected with
\* InvalidAmount, whatever the other arguments are, once the contract is
\* initialised.
C14_OversizeAmountRejected ==
    admin # NoAdmin =>
        \A buyer \in WideBuyers, seller \in WideSellers, amount \in WideAmounts,
           token \in Tokens, holdback_rate \in WideRates, holdback_days \in Days,
           wraps \in BOOLEAN :
            amount > I128_MAX =>
                create_payment(S, now, buyer, seller, amount, token, holdback_rate,
                               holdback_days, wraps).err = "InvalidAmount"

\* C15: with the contract initialised, valid parties, a buyer who holds and
\* has approved the amount, and a clock that leaves room for the release
\* time, create_payment succeeds for every amount in 1..I128_MAX and every
\* rate in 1..100, and stores holdback_amount = floor(amount * rate / 100)
\* and final_amount = amount - holdback_amount.
C15_HoldbackIsExactFloor ==
    \A buyer \in WideBuyers, seller \in WideSellers, amount \in WideAmounts,
       token \in Tokens, holdback_rate \in WideRates, holdback_days \in Days,
       wraps \in BOOLEAN :
        (/\ admin # NoAdmin
         /\ amount \in 1..I128_MAX /\ holdback_rate \in 1..100
         /\ buyer # seller /\ buyer # admin /\ seller # admin
         /\ buyer # token /\ seller # token
         /\ bal[token][buyer] >= amount /\ allow[token][buyer] >= amount
         /\ counter < U128_MAX
         /\ now + holdback_days * DAY_IN_SECONDS <= U64_MAX) =>
            LET r == create_payment(S, now, buyer, seller, amount, token,
                                    holdback_rate, holdback_days, wraps)
            IN  /\ r.err = Ok
                /\ r.s.txs[r.ret].holdback_amount = (amount * holdback_rate) \div 100
                /\ r.s.txs[r.ret].final_amount
                     = amount - ((amount * holdback_rate) \div 100)

\* C20: when the clock keeps advancing, check_and_release keeps being called
\* for every transaction and the admin keeps resolving open disputes, every
\* created transaction eventually is Completed or Cancelled.
C20_EventualSettlement ==
    \A id \in 1..MaxTx :
        (id \in DOMAIN txs) ~> (id \in DOMAIN txs /\ Terminal(txs[id].status))

C20_Witness ==
    /\ 2 \in DOMAIN txs
    /\ txs[1].status = "Cancelled" /\ paid[1].buyer = txs[1].holdback_amount
    /\ txs[2].status = "Completed" /\ paid[2].seller = txs[2].holdback_amount
    /\ txs[2].release_time > 0
    /\ now >= txs[2].release_time
    /\ last.op = "check_and_release" /\ last.err = Ok
====
